---- MODULE Spec2Model ----
(***************************************************************************)
(* tsdiagram: the model parser (ModelParser, known through its test file   *)
(* and its caller) and the diagram renderer's incremental layout           *)
(* controller (components/Renderer/Renderer.tsx).                          *)
(*                                                                         *)
(* A source text is modelled at the level of its top-level declarations:   *)
(* a sequence of [name, literal, fields], each field a name and a type     *)
(* expression [k, n, args] (k = "name" for a bare type name, "array" for   *)
(* n[], "generic" for n<args>).  Models refer to each other by id.         *)
(***************************************************************************)
EXTENDS Integers, Sequences, FiniteSets, Bags, TLC

VARIABLES
    source,                 \* Renderer prop `source` / ModelParser's source
    models,                 \* result of parser.getModels()
    nodes,                  \* useNodesState: committed nodes
    edges,                  \* useEdgesState: committed edges
    cachedNodesMap,         \* ref: id -> node, refreshed by the auto-layout effect
    previousEdges,          \* ref: only its length is ever read, so the length is kept
    previousModels,         \* ref: id -> model of the previous parse
    manuallyMovedNodesSet,  \* ref: ids of nodes a drag has stopped on
    direction,              \* options.renderer.direction
    autoFitView,            \* options.renderer.autoFitView
    rafQueue,               \* handleAutoLayout callbacks waiting for the next animation frame
    inFlight,               \* bag of layout requests started and not yet settled
    initialized,            \* ReactFlow has called onInit
    fitViewCalls,           \* fitView signals emitted by the last handler
    invalidated,            \* ids passed to updateNodeInternals by the last handler
    lastEvent               \* the handler that ran last, and what it was given

vars == <<source, models, nodes, edges, cachedNodesMap, previousEdges, previousModels,
          manuallyMovedNodesSet, direction, autoFitView, rafQueue, inFlight, initialized,
          fitViewCalls, invalidated, lastEvent>>

(***************************************************************************)
(* Bounds                                                                  *)
(***************************************************************************)
MaxDecls == 2         \* declarations in a parser input
MaxTotalFields == 2   \* fields in a parser input, over all declarations
MaxSize == 2          \* measured widths and heights are 1..MaxSize
MaxCoord == 1         \* dragged and computed positions are (c, MaxCoord - c), c in 0..MaxCoord
MaxPending == 2       \* animation-frame callbacks waiting at once
MaxInFlight == 1      \* distinct layout requests in flight at once

(***************************************************************************)
(* Sequence helpers                                                        *)
(***************************************************************************)
Range(s) == {s[i] : i \in 1..Len(s)}

RECURSIVE Concat(_)
Concat(ss) == IF ss = <<>> THEN <<>> ELSE Head(ss) \o Concat(Tail(ss))

Count(s, v) == Cardinality({i \in 1..Len(s) : s[i] = v})

(***************************************************************************)
(* ModelParser                                                             *)
(***************************************************************************)
AllNames == <<"A", "B", "C", "D">>
DeclNames == {AllNames[i] : i \in 1..MaxDecls}
TypeNames == DeclNames \cup {"string"}

NameExpr(n) == [k |-> "name", n |-> n, args |-> <<>>]
ArrayExpr(n) == [k |-> "array", n |-> n, args |-> <<>>]
GenericExpr(n, args) == [k |-> "generic", n |-> n, args |-> args]

Literal(v) == [isModel |-> FALSE, v |-> v]
ModelRef(id) == [isModel |-> TRUE, v |-> id]
NoType == Literal("")

\* only declarations whose root is an object literal count as models
declaredLiteralNamesIndex(decls) == {decls[i].name : i \in {j \in 1..Len(decls) : decls[j].literal}}
\* pass 1: one placeholder per declaration, indexed by name
declaredNamesIndex(decls) == {decls[i].name : i \in 1..Len(decls)}

\* a type name is a Model exactly when it is a declared name
resolve(n, index) == IF n \in index THEN ModelRef(n) ELSE Literal(n)

\* FieldClassifier: array, generic reference, direct reference, primitive
classify(f, index) ==
    CASE f.texpr.k = "array" ->
           [name |-> f.name, type |-> Literal("array"),
            elementType |-> resolve(f.texpr.n, index),
            referenceName |-> "", arguments |-> <<>>]
      [] f.texpr.k = "generic" ->
           [name |-> f.name, type |-> Literal("reference"),
            elementType |-> NoType,
            referenceName |-> f.texpr.n,
            arguments |-> [i \in 1..Len(f.texpr.args) |-> resolve(f.texpr.args[i], index)]]
      [] OTHER ->
           [name |-> f.name, type |-> resolve(f.texpr.n, index),
            elementType |-> NoType, referenceName |-> "", arguments |-> <<>>]

isArraySchemaField(field) == ~field.type.isModel /\ field.type.v = "array"
isReferenceSchemaField(field) == ~field.type.isModel /\ field.type.v = "reference"

\* the Model ids one classified field refers to, in argument order
fieldReferences(field) ==
    (IF field.type.isModel THEN <<field.type.v>> ELSE <<>>)
    \o (IF isArraySchemaField(field) /\ field.elementType.isModel
        THEN <<field.elementType.v>> ELSE <<>>)
    \o (IF isReferenceSchemaField(field)
        THEN Concat([i \in 1..Len(field.arguments) |->
                       IF field.arguments[i].isModel THEN <<field.arguments[i].v>> ELSE <<>>])
        ELSE <<>>)

\* a declaration whose root is not an object literal registers a name with no fields
buildSchema(decl, index) ==
    IF decl.literal THEN [i \in 1..Len(decl.fields) |-> classify(decl.fields[i], index)]
    ELSE <<>>

schemaReferences(schema) == Concat([i \in 1..Len(schema) |-> fieldReferences(schema[i])])

\* the ids of s, each once, in order of first occurrence
RECURSIVE uniqueInOrder(_)
uniqueInOrder(s) ==
    IF s = <<>> THEN <<>>
    ELSE LET init == uniqueInOrder(SubSeq(s, 1, Len(s) - 1))
             last == s[Len(s)]
         IN IF last \in Range(init) THEN init ELSE Append(init, last)

\* every reference is an adjacency entry of its own
dependenciesWithDuplicates(decl, index) == schemaReferences(buildSchema(decl, index))
\* the models a declaration depends on, each once ("parses references": Map<A, A>
\* gives one dependency on A)
dependenciesOf(decl, index) == uniqueInOrder(schemaReferences(buildSchema(decl, index)))

\* a model is never linked as its own dependant
dependantsOfNoSelf(name, decls, index) ==
    Concat([i \in 1..Len(decls) |->
              IF decls[i].name = name THEN <<>>
              ELSE [j \in 1..Count(dependenciesOf(decls[i], index), name) |-> decls[i].name]])
\* linking pushes the target onto the referrer's dependencies and the referrer onto the
\* target's dependants, declaration by declaration
dependantsOf(name, decls, index) ==
    Concat([i \in 1..Len(decls) |->
              [j \in 1..Count(dependenciesOf(decls[i], index), name) |-> decls[i].name]])

getModels(decls) ==
    LET index == declaredNamesIndex(decls)
    IN [i \in 1..Len(decls) |->
          [id |-> decls[i].name,
           name |-> decls[i].name,
           schema |-> buildSchema(decls[i], index),
           dependencies |-> dependenciesOf(decls[i], index),
           dependants |-> dependantsOf(decls[i].name, decls, index)]]

(***************************************************************************)
(* Renderer: pure helpers                                                  *)
(***************************************************************************)
Unmeasured == 0       \* a node without width / height (`node.width ?? 0`)
DefaultCoord == -1    \* position of a node never laid out
NoNode == ""

Sizes == 1..MaxSize
Coords == 0..MaxCoord
\* the positions a drag or the layout engine puts a node at
Points == {[x |-> c, y |-> MaxCoord - c] : c \in Coords}

nodeIds(ns) == {ns[i].id : i \in 1..Len(ns)}
nodeOf(ns, id) == ns[CHOOSE i \in 1..Len(ns) : ns[i].id = id]

RECURSIVE join(_, _)
join(ids, sep) ==
    IF ids = <<>> THEN ""
    ELSE IF Len(ids) = 1 THEN ids[1]
    ELSE ids[1] \o sep \o join(Tail(ids), sep)

extractModelNodes(ms) ==
    [i \in 1..Len(ms) |->
       [id |-> ms[i].id,
        position |-> [x |-> DefaultCoord, y |-> DefaultCoord],
        width |-> Unmeasured,
        height |-> Unmeasured,
        data |-> [j \in 1..Len(ms[i].schema) |-> ms[i].schema[j].name]]]

\* the edges of one field, without their sequence number
fieldEdges(model, field) ==
    (IF field.type.isModel
     THEN <<[source |-> model.id, field |-> field.name, target |-> field.type.v, arg |-> ""]>>
     ELSE <<>>)
    \o (IF isArraySchemaField(field) /\ field.elementType.isModel
        THEN <<[source |-> model.id, field |-> field.name,
                target |-> field.elementType.v, arg |-> ""]>>
        ELSE <<>>)
    \o (IF isReferenceSchemaField(field)
        THEN Concat([i \in 1..Len(field.arguments) |->
                IF field.arguments[i].isModel
                THEN <<[source |-> model.id, field |-> field.name,
                        target |-> field.arguments[i].v, arg |-> field.arguments[i].v]>>
                ELSE <<>>])
        ELSE <<>>)

extractModelEdges(ms) ==
    LET raw == Concat([i \in 1..Len(ms) |->
                  Concat([j \in 1..Len(ms[i].schema) |-> fieldEdges(ms[i], ms[i].schema[j])])])
    IN [n \in 1..Len(raw) |->
          [id |-> ToString(n) \o "-" \o raw[n].source \o "-" \o raw[n].field
                  \o (IF raw[n].arg = "" THEN "" ELSE "-" \o raw[n].arg),
           source |-> raw[n].source,
           target |-> raw[n].target,
           sourceHandle |-> raw[n].source \o "-" \o raw[n].field]]

\* only nodes that have a size are cached
measuredNodesMap(ns) ==
    [id \in {ns[i].id : i \in {j \in 1..Len(ns) : ns[j].width # Unmeasured}} |-> nodeOf(ns, id)]
\* new Map(nodes.map((node) => [node.id, node]))
nodesMap(ns) == [id \in nodeIds(ns) |-> nodeOf(ns, id)]
modelsMap(ms) == [id \in {ms[i].id : i \in 1..Len(ms)} |->
                    ms[CHOOSE i \in 1..Len(ms) : ms[i].id = id]]

\* a fresh node forgets what the cache knows about it
mergeDiscardsCache(node, cache) == node
\* "update nodes and edges after parsing": one fresh node merged with the cache
mergeWithCache(node, cache) ==
    IF node.id \in DOMAIN cache
    THEN LET cachedNode == cache[node.id]
         IN IF cachedNode.width # Unmeasured /\ cachedNode.height # Unmeasured
            THEN [node EXCEPT !.width = cachedNode.width,
                              !.height = cachedNode.height,
                              !.position = cachedNode.position]
            ELSE [node EXCEPT !.position = cachedNode.position]
    ELSE node

\* any difference between a node and its cached copy asks for a layout
needsAutoLayoutOnAnyChange(ns, es, cache, prevEdgesLength) ==
    \/ prevEdgesLength # Len(es)
    \/ Len(ns) # Cardinality(DOMAIN cache)
    \/ \E i \in 1..Len(ns) : ns[i].id \in DOMAIN cache /\ cache[ns[i].id] # ns[i]
\* a size change is not noticed
needsAutoLayoutIgnoresSize(ns, es, cache, prevEdgesLength) ==
    \/ prevEdgesLength # Len(es)
    \/ Len(ns) # Cardinality(DOMAIN cache)
\* a node measured for the first time counts as a size change
needsAutoLayoutOnFirstMeasure(ns, es, cache, prevEdgesLength) ==
    IF prevEdgesLength # Len(es) THEN TRUE
    ELSE IF Len(ns) = Cardinality(DOMAIN cache)
    THEN \E i \in 1..Len(ns) :
            /\ ns[i].id \in DOMAIN cache
            /\ \/ ns[i].width # cache[ns[i].id].width
               \/ ns[i].height # cache[ns[i].id].height
    ELSE TRUE
\* "cache computed nodes and trigger auto layout": the decision
needsAutoLayout(ns, es, cache, prevEdgesLength) ==
    IF prevEdgesLength # Len(es) THEN TRUE
    ELSE IF Len(ns) = Cardinality(DOMAIN cache)
    THEN \E i \in 1..Len(ns) :
            /\ ns[i].id \in DOMAIN cache
            /\ LET previousNode == cache[ns[i].id]
               IN \/ previousNode.width # Unmeasured /\ ns[i].width # previousNode.width
                  \/ previousNode.height # Unmeasured /\ ns[i].height # previousNode.height
    ELSE TRUE

\* only the dependencies of a model are compared
changedTopologyDependenciesOnly(ms, prev) ==
    {id \in {ms[i].id : i \in 1..Len(ms)} \cap DOMAIN prev :
        join(prev[id].dependencies, ":") # join(modelsMap(ms)[id].dependencies, ":")}
\* "update node internals when node dependencies change": ids to invalidate
changedTopology(ms, prev) ==
    {id \in {ms[i].id : i \in 1..Len(ms)} \cap DOMAIN prev :
        LET model == modelsMap(ms)[id]
            previousModel == prev[id]
        IN \/ join(previousModel.dependants, ":") # join(model.dependants, ":")
           \/ join(previousModel.dependencies, ":") # join(model.dependencies, ":")}

\* handleAutoLayout: the nodes handed to the layout
nodesToLayout(ns, cache) ==
    [i \in 1..Len(ns) |->
       IF ns[i].id \in DOMAIN cache
       THEN [ns[i] EXCEPT
               !.width = IF ns[i].width # Unmeasured THEN ns[i].width
                         ELSE cache[ns[i].id].width,
               !.height = IF ns[i].height # Unmeasured THEN ns[i].height
                          ELSE cache[ns[i].id].height]
       ELSE ns[i]]

layoutRequest(ns, es, cache) == [nodes |-> nodesToLayout(ns, cache), edges |-> es]

\* "elk.direction" of elkOptions
elkDirection(dir) == IF dir = "horizontal" THEN "RIGHT" ELSE "DOWN"

\* the ports follow the direction: East when horizontal, South when vertical
portsOnDirectionSide(node) ==
    [index \in 1..Len(node.data) |->
       [id |-> node.id \o "-" \o node.data[index],
        order |-> index - 1,
        side |-> IF direction = "horizontal" THEN "EAST" ELSE "SOUTH"]]
\* the ports of one child of the request graph: one per schema field
ports(node) ==
    [index \in 1..Len(node.data) |->
       [id |-> node.id \o "-" \o node.data[index],
        order |-> index - 1,
        side |-> "EAST"]]

\* getLayoutedElements up to `await elk.layout(graph)`: the graph sent to the engine
elkGraph(request, dir, pinned) ==
    [id |-> "root",
     direction |-> elkDirection(dir),
     children |-> [i \in 1..Len(request.nodes) |->
                     LET node == request.nodes[i]
                     IN [id |-> node.id,
                         width |-> node.width,
                         height |-> node.height,
                         ports |-> ports(node),
                         fixed |-> node.id \in pinned,
                         position |-> node.position]],
     edges |-> [i \in 1..Len(request.edges) |->
                  [id |-> request.edges[i].id,
                   sources |-> <<request.edges[i].sourceHandle>>,
                   targets |-> <<request.edges[i].target>>]]]

\* what the layout engine may answer for one child of the request: the child may be
\* missing, or come back without a position; elk computes no sizes (no size constraint
\* is among elkOptions), so width and height come back as they were sent
\* (`node.width ?? 0`)
ElkChildren(node) ==
    {[found |-> f, hasPosition |-> FALSE, x |-> 0, y |-> 0,
      width |-> node.width, height |-> node.height] : f \in BOOLEAN}
    \cup {[found |-> TRUE, hasPosition |-> TRUE, x |-> p.x, y |-> p.y,
           width |-> node.width, height |-> node.height] : p \in Points}

\* the answers to a list of children, one per child
RECURSIVE ElkAnswers(_)
ElkAnswers(children) ==
    IF children = <<>> THEN {<<>>}
    ELSE {<<c>> \o rest : c \in ElkChildren(Head(children)),
                          rest \in ElkAnswers(Tail(children))}

ElkResults(request) == ElkAnswers(request.nodes)

\* first write wins: a node the view already shows away from the default position keeps
\* the position the view shows
layoutedNodeKeepsPlaced(node, elkNode, pinned) ==
    IF ~elkNode.found THEN node
    ELSE LET shown == IF node.id \in nodeIds(nodes) THEN nodeOf(nodes, node.id).position
                      ELSE node.position
             isPlaced == shown # [x |-> DefaultCoord, y |-> DefaultCoord]
             hasManuallyMoved == node.id \in pinned
         IN [node EXCEPT
               !.position =
                  IF hasManuallyMoved THEN node.position
                  ELSE IF isPlaced THEN shown
                  ELSE IF elkNode.hasPosition THEN [x |-> elkNode.x, y |-> elkNode.y]
                  ELSE node.position,
               !.width = IF elkNode.width # 0 /\ elkNode.height # 0
                         THEN elkNode.width ELSE Unmeasured,
               !.height = IF elkNode.width # 0 /\ elkNode.height # 0
                          THEN elkNode.height ELSE Unmeasured]
\* a node whose size the engine does not report in full keeps the size of the request
layoutedNodeKeepsSize(node, elkNode, pinned) ==
    IF ~elkNode.found THEN node
    ELSE LET hasManuallyMoved == node.id \in pinned
         IN [node EXCEPT
               !.position =
                  [x |-> IF hasManuallyMoved THEN node.position.x
                         ELSE IF elkNode.hasPosition THEN elkNode.x ELSE node.position.x,
                   y |-> IF hasManuallyMoved THEN node.position.y
                         ELSE IF elkNode.hasPosition THEN elkNode.y ELSE node.position.y],
               !.width = IF elkNode.width # 0 /\ elkNode.height # 0
                         THEN elkNode.width ELSE node.width,
               !.height = IF elkNode.width # 0 /\ elkNode.height # 0
                          THEN elkNode.height ELSE node.height]
\* getLayoutedElements, after `await elk.layout(graph)`: one node of the result
layoutedNode(node, elkNode, pinned) ==
    IF ~elkNode.found THEN node
    ELSE LET hasManuallyMoved == node.id \in pinned
         IN [node EXCEPT
               !.position =
                  [x |-> IF hasManuallyMoved THEN node.position.x
                         ELSE IF elkNode.hasPosition THEN elkNode.x ELSE node.position.x,
                   y |-> IF hasManuallyMoved THEN node.position.y
                         ELSE IF elkNode.hasPosition THEN elkNode.y ELSE node.position.y],
               !.width = IF elkNode.width # 0 /\ elkNode.height # 0
                         THEN elkNode.width ELSE Unmeasured,
               !.height = IF elkNode.width # 0 /\ elkNode.height # 0
                          THEN elkNode.height ELSE Unmeasured]

getLayoutedElements(request, result, pinned) ==
    [nodes |-> [i \in 1..Len(request.nodes) |->
                  layoutedNode(request.nodes[i], result[i], pinned)],
     edges |-> request.edges]

\* a rejected layout commits nodes without size at the default position
viewAfterRejectionReset(ns, es) ==
    [nodes |-> [i \in 1..Len(ns) |->
                  [ns[i] EXCEPT !.position = [x |-> DefaultCoord, y |-> DefaultCoord],
                                !.width = Unmeasured, !.height = Unmeasured]],
     edges |-> es,
     committed |-> TRUE]
\* handleAutoLayout attaches no rejection handler: a rejected layout commits nothing
viewAfterRejection(ns, es) == [nodes |-> ns, edges |-> es, committed |-> FALSE]

(***************************************************************************)
(* Inputs                                                                  *)
(***************************************************************************)
FieldNames == <<"a", "b", "c", "d">>

TypeExprs ==
    {NameExpr(n) : n \in TypeNames}
    \cup {ArrayExpr(n) : n \in TypeNames}
    \cup {GenericExpr("Map", <<a, b>>) : a, b \in TypeNames}

\* object-literal declarations of `name` with k fields, and, for k = 0, the alias of
\* a non-literal type
DeclsWith(name, k) ==
    {[name |-> name, literal |-> TRUE,
      fields |-> [i \in 1..k |-> [name |-> FieldNames[i], texpr |-> ts[i]]]] :
        ts \in [1..k -> TypeExprs]}
    \cup (IF k = 0 THEN {[name |-> name, literal |-> FALSE, fields |-> <<>>]} ELSE {})

RECURSIVE SourcesOf(_, _)
SourcesOf(n, budget) ==
    IF n = 0 THEN {<<>>}
    ELSE UNION {{Append(s, d) : s \in SourcesOf(n - 1, budget - k),
                                d \in DeclsWith(AllNames[n], k)} : k \in 0..budget}

ParserSources == UNION {SourcesOf(n, MaxTotalFields) : n \in 1..MaxDecls}

Field(name, texpr) == [name |-> name, texpr |-> texpr]
TypeDecl(name, fields) == [name |-> name, literal |-> TRUE, fields |-> fields]

\* the source texts the editor moves between
RendererSources ==
    { <<>>,
      <<TypeDecl("A", <<Field("a", NameExpr("string"))>>)>>,
      <<TypeDecl("A", <<Field("a", NameExpr("string")), Field("b", NameExpr("A"))>>)>> }

(***************************************************************************)
(* Renderer: state machine                                                 *)
(***************************************************************************)
Event(kind, id, detail) == [kind |-> kind, id |-> id, detail |-> detail]

\* state right after the component has mounted on its first source
Init ==
    /\ source \in RendererSources
    /\ models = getModels(source)
    /\ nodes = extractModelNodes(models)
    /\ edges = extractModelEdges(models)
    /\ cachedNodesMap = nodesMap(nodes)
    /\ previousEdges = Len(edges)
    /\ previousModels = modelsMap(models)
    /\ manuallyMovedNodesSet = {}
    /\ direction = "horizontal"
    /\ autoFitView = TRUE
    /\ rafQueue = IF needsAutoLayout(nodes, edges, <<>>, 0) THEN 1 ELSE 0
    /\ inFlight = EmptyBag
    /\ initialized = FALSE
    /\ fitViewCalls = 0
    /\ invalidated = {}
    /\ lastEvent = Event("mount", NoNode, "")

\* setNodes / setEdges followed by the re-render's layout effect: "cache computed
\* nodes and trigger auto layout if their width or height changed"
commit(ns, es) ==
    /\ nodes' = ns
    /\ edges' = es
    /\ rafQueue' = IF needsAutoLayout(ns, es, cachedNodesMap, previousEdges)
                   THEN rafQueue + 1 ELSE rafQueue
    /\ rafQueue' <= MaxPending
    /\ previousEdges' = Len(es)
    /\ cachedNodesMap' = nodesMap(ns)

\* the model that gained exactly one field between two parses, if there is just one
gainedField(old, new) ==
    LET gained == {id \in DOMAIN modelsMap(old) \cap DOMAIN modelsMap(new) :
                      Len(modelsMap(new)[id].schema) = Len(modelsMap(old)[id].schema) + 1}
    IN IF Cardinality(gained) = 1 THEN CHOOSE id \in gained : TRUE ELSE NoNode

\* the `source` prop changes: parse, merge with the cache, commit, evaluate
SourceChange(s) ==
    /\ s # source
    /\ LET ms == getModels(s)
           parsedNodes == extractModelNodes(ms)
           parsedEdges == extractModelEdges(ms)
           updatedNodes == [i \in 1..Len(parsedNodes) |->
                              mergeWithCache(parsedNodes[i], cachedNodesMap)]
       IN /\ source' = s
          /\ models' = ms
          /\ commit(updatedNodes, parsedEdges)
          /\ invalidated' = changedTopology(ms, previousModels)
          /\ previousModels' = modelsMap(ms)
          /\ lastEvent' = Event("source", gainedField(models, ms),
                                IF Len(parsedEdges) = Len(edges) + 1
                                THEN "edge added" ELSE "")
    /\ fitViewCalls' = 0
    /\ UNCHANGED <<manuallyMovedNodesSet, direction, autoFitView, inFlight, initialized>>

\* onNodesChange with a dimensions change: the rendering layer measured node i
Measure(i, w, h) ==
    /\ i \in 1..Len(nodes)
    /\ commit([nodes EXCEPT ![i].width = w, ![i].height = h], edges)
    /\ fitViewCalls' = 0
    /\ invalidated' = {}
    /\ lastEvent' = Event("measure", nodes[i].id,
                          IF nodes[i].width = Unmeasured THEN "first"
                          ELSE IF nodes[i].width = w /\ nodes[i].height = h THEN "same"
                          ELSE "changed")
    /\ UNCHANGED <<source, models, previousModels, manuallyMovedNodesSet, direction,
                   autoFitView, inFlight, initialized>>

\* onNodesChange with a position change: the user drags node i
NodeDrag(i, p) ==
    /\ i \in 1..Len(nodes)
    /\ commit([nodes EXCEPT ![i].position = [x |-> p.x, y |-> p.y]], edges)
    /\ fitViewCalls' = 0
    /\ invalidated' = {}
    /\ lastEvent' = Event("drag", nodes[i].id, "")
    /\ UNCHANGED <<source, models, previousModels, manuallyMovedNodesSet, direction,
                   autoFitView, inFlight, initialized>>

\* onNodeDragStop: a drag of node i ends
handleNodeDragStop(i) ==
    /\ i \in 1..Len(nodes)
    /\ manuallyMovedNodesSet' = manuallyMovedNodesSet \cup {nodes[i].id}
    /\ fitViewCalls' = 0
    /\ invalidated' = {}
    /\ lastEvent' = Event("drag", nodes[i].id, "stop")
    /\ UNCHANGED <<source, models, nodes, edges, cachedNodesMap, previousEdges,
                   previousModels, direction, autoFitView, rafQueue, inFlight, initialized>>

\* handleAutoLayout up to the call of elk.layout, run k times in a row; the layouts in
\* flight are kept as a bag, since any of them may settle next
startLayouts(k) ==
    LET started == inFlight (+) (layoutRequest(nodes, edges, cachedNodesMap) :> k)
    IN /\ Cardinality(BagToSet(started)) <= MaxInFlight
       /\ BagCardinality(started) <= MaxInFlight * MaxPending
       /\ inFlight' = started

\* an animation frame runs every callback requestAnimationFrame has queued
AnimationFrame ==
    /\ rafQueue > 0
    /\ startLayouts(rafQueue)
    /\ rafQueue' = 0
    /\ fitViewCalls' = 0
    /\ invalidated' = {}
    /\ lastEvent' = Event("frame", NoNode, "")
    /\ UNCHANGED <<source, models, nodes, edges, cachedNodesMap, previousEdges,
                   previousModels, manuallyMovedNodesSet, direction, autoFitView,
                   initialized>>

\* where the engine's answer puts each child: a point, or NoPlace for a child that is
\* missing or has no coordinates
NoPlace == [x |-> DefaultCoord, y |-> DefaultCoord]
placedBy(result) ==
    [i \in 1..Len(result) |->
       IF result[i].found /\ result[i].hasPosition
       THEN [x |-> result[i].x, y |-> result[i].y] ELSE NoPlace]

\* a layout in flight resolves with `result`: the `.then` of handleAutoLayout; the event
\* records the answer and, when the step before was a resolve too, the answer before
LayoutResolved(request, result) ==
    /\ request \in BagToSet(inFlight)
    /\ result \in ElkResults(request)
    /\ LET layouted == getLayoutedElements(request, result, manuallyMovedNodesSet)
       IN commit(layouted.nodes, layouted.edges)
    /\ inFlight' = inFlight (-) SetToBag({request})
    /\ fitViewCalls' = IF autoFitView THEN 1 ELSE 0
    /\ invalidated' = {}
    /\ lastEvent' = [kind |-> "resolve", id |-> NoNode,
                     detail |-> IF request = layoutRequest(nodes, edges, cachedNodesMap)
                                THEN "fresh" ELSE "stale",
                     placed |-> placedBy(result),
                     before |-> IF lastEvent.kind = "resolve" THEN lastEvent.placed
                                ELSE <<>>]
    /\ UNCHANGED <<source, models, previousModels, manuallyMovedNodesSet, direction,
                   autoFitView, initialized>>

\* a layout in flight rejects
LayoutRejected(request) ==
    /\ request \in BagToSet(inFlight)
    /\ inFlight' = inFlight (-) SetToBag({request})
    /\ LET view == viewAfterRejection(nodes, edges)
       IN IF view.committed
          THEN commit(view.nodes, view.edges)
          ELSE UNCHANGED <<nodes, edges, cachedNodesMap, previousEdges, rafQueue>>
    /\ fitViewCalls' = 0
    /\ invalidated' = {}
    /\ lastEvent' = Event("reject", NoNode, "")
    /\ UNCHANGED <<source, models, previousModels, manuallyMovedNodesSet, direction,
                   autoFitView, initialized>>

Next ==
    \/ \E s \in RendererSources : SourceChange(s)
    \/ \E i \in 1..Len(nodes), w \in Sizes, h \in Sizes : Measure(i, w, h)
    \/ \E i \in 1..Len(nodes), p \in Points : NodeDrag(i, p)
    \/ \E i \in 1..Len(nodes) : handleNodeDragStop(i)
    \/ AnimationFrame
    \/ \E request \in BagToSet(inFlight) : \E result \in ElkResults(request) :
          LayoutResolved(request, result)
    \/ \E request \in BagToSet(inFlight) : LayoutRejected(request)

Spec == Init /\ [][Next]_vars

(***************************************************************************)
(* Renderer with overlapping layouts: one source, no edits, and up to      *)
(* MaxRacing layout computations in flight, of different requests          *)
(***************************************************************************)
MaxRacing == 2        \* layout computations in flight at once under RaceSpec

RaceInit ==
    /\ Init
    /\ source = <<TypeDecl("A", <<Field("a", NameExpr("string"))>>)>>

\* an animation frame runs every callback requestAnimationFrame has queued
RacingAnimationFrame ==
    /\ rafQueue > 0
    /\ inFlight' = inFlight (+) (layoutRequest(nodes, edges, cachedNodesMap) :> rafQueue)
    /\ BagCardinality(inFlight') <= MaxRacing
    /\ rafQueue' = 0
    /\ fitViewCalls' = 0
    /\ invalidated' = {}
    /\ lastEvent' = Event("frame", NoNode, "")
    /\ UNCHANGED <<source, models, nodes, edges, cachedNodesMap, previousEdges,
                   previousModels, manuallyMovedNodesSet, direction, autoFitView,
                   initialized>>

AnyLayoutResolved ==
    \E request \in BagToSet(inFlight) : \E result \in ElkResults(request) :
       LayoutResolved(request, result)

RaceNext ==
    \/ \E i \in 1..Len(nodes), w \in Sizes, h \in Sizes : Measure(i, w, h)
    \/ \E i \in 1..Len(nodes) : handleNodeDragStop(i)
    \/ RacingAnimationFrame
    \/ AnyLayoutResolved

RaceSpec == RaceInit /\ [][RaceNext]_vars

\* every queued animation frame runs and every layout computation resolves
RaceFairSpec ==
    RaceInit /\ [][RaceNext]_vars /\ WF_vars(RacingAnimationFrame) /\ WF_vars(AnyLayoutResolved)

(***************************************************************************)
(* getLayoutedElements on its own: every bounded request of one node, and  *)
(* every answer of the engine, whatever sizes it reports                   *)
(***************************************************************************)
\* the nodes a layout may be requested for: placed or not, measured or not
RequestNodes ==
    {[id |-> "A", position |-> p, width |-> w, height |-> h, data |-> <<"a">>] :
        p \in Points \cup {[x |-> DefaultCoord, y |-> DefaultCoord]},
        w \in {Unmeasured} \cup Sizes, h \in {Unmeasured} \cup Sizes}

\* the answers of an engine that may report any size for a child, or none
AnyElkChildren ==
    {[found |-> f, hasPosition |-> hp, x |-> 0, y |-> MaxCoord, width |-> w, height |-> h] :
        f \in BOOLEAN, hp \in BOOLEAN,
        w \in {Unmeasured} \cup Sizes, h \in {Unmeasured} \cup Sizes}

LayoutInit ==
    /\ source = <<>>
    /\ models = <<>>
    /\ nodes \in {<<n>> : n \in RequestNodes}
    /\ edges = <<>>
    /\ cachedNodesMap = nodesMap(nodes)
    /\ previousEdges = 0
    /\ previousModels = <<>>
    /\ manuallyMovedNodesSet \in SUBSET {"A"}
    /\ direction = "horizontal"
    /\ autoFitView = TRUE
    /\ rafQueue = 0
    /\ inFlight = EmptyBag
    /\ initialized = FALSE
    /\ fitViewCalls = 0
    /\ invalidated = {}
    /\ lastEvent = Event("request", NoNode, "")

\* getLayoutedElements({nodes, edges, manuallyMovedNodesSet}) with the engine's answer
GetLayoutedElements(result) ==
    /\ lastEvent.kind = "request"
    /\ nodes' = getLayoutedElements([nodes |-> nodes, edges |-> edges], result,
                                    manuallyMovedNodesSet).nodes
    /\ lastEvent' = [kind |-> "layouted", id |-> NoNode, detail |-> "",
                     request |-> nodes, result |-> result]
    /\ UNCHANGED <<source, models, edges, cachedNodesMap, previousEdges, previousModels,
                   manuallyMovedNodesSet, direction, autoFitView, rafQueue, inFlight,
                   initialized, fitViewCalls, invalidated>>

LayoutNext == \E elkNode \in AnyElkChildren : GetLayoutedElements(<<elkNode>>)

LayoutSpec == LayoutInit /\ [][LayoutNext]_vars

(***************************************************************************)
(* Renderer on sources of three models whose references change, up to the  *)
(* start of the layouts: edits, measurements and animation frames          *)
(***************************************************************************)
\* three models; A refers to B, to itself or to nothing, and C neither refers to a
\* model nor is referred to
TopologySources ==
    {<<TypeDecl("A", <<Field("a", t)>>),
       TypeDecl("B", <<Field("a", NameExpr("string"))>>),
       TypeDecl("C", <<Field("a", NameExpr("string"))>>)>> :
        t \in {NameExpr("B"), NameExpr("A"), NameExpr("string")}}

TopologyInit ==
    /\ source \in TopologySources
    /\ models = getModels(source)
    /\ nodes = extractModelNodes(models)
    /\ edges = extractModelEdges(models)
    /\ cachedNodesMap = nodesMap(nodes)
    /\ previousEdges = Len(edges)
    /\ previousModels = modelsMap(models)
    /\ manuallyMovedNodesSet = {}
    /\ direction = "horizontal"
    /\ autoFitView = TRUE
    /\ rafQueue = IF needsAutoLayout(nodes, edges, <<>>, 0) THEN 1 ELSE 0
    /\ inFlight = EmptyBag
    /\ initialized = FALSE
    /\ fitViewCalls = 0
    /\ invalidated = {}
    /\ lastEvent = Event("mount", NoNode, "")

TopologyNext ==
    \/ \E s \in TopologySources : SourceChange(s)
    \/ \E i \in 1..Len(nodes) : Measure(i, 1, 1)
    \/ AnimationFrame

TopologySpec == TopologyInit /\ [][TopologyNext]_vars

(***************************************************************************)
(* Renderer with its option panel and viewport handlers: one source, no    *)
(* edits                                                                   *)
(***************************************************************************)
PanelInit ==
    /\ Init
    /\ source = <<TypeDecl("A", <<Field("a", NameExpr("string")), Field("b", NameExpr("A"))>>)>>

\* onInit: handleInit is handleAutoLayout
OnInit ==
    /\ ~initialized
    /\ initialized' = TRUE
    /\ startLayouts(1)
    /\ fitViewCalls' = 0
    /\ invalidated' = {}
    /\ lastEvent' = Event("init", NoNode, "")
    /\ UNCHANGED <<source, models, nodes, edges, cachedNodesMap, previousEdges,
                   previousModels, manuallyMovedNodesSet, direction, autoFitView, rafQueue>>

handleAutoFitToggle ==
    /\ autoFitView' = ~autoFitView
    /\ startLayouts(1)
    /\ fitViewCalls' = 0
    /\ invalidated' = {}
    /\ lastEvent' = Event("autofit", NoNode, "")
    /\ UNCHANGED <<source, models, nodes, edges, cachedNodesMap, previousEdges,
                   previousModels, manuallyMovedNodesSet, direction, rafQueue, initialized>>

handleDirectionToggle ==
    /\ direction' = IF direction = "horizontal" THEN "vertical" ELSE "horizontal"
    /\ autoFitView' = TRUE
    /\ startLayouts(1)
    /\ fitViewCalls' = 0
    /\ invalidated' = {}
    /\ lastEvent' = Event("direction", NoNode, "")
    /\ UNCHANGED <<source, models, nodes, edges, cachedNodesMap, previousEdges,
                   previousModels, manuallyMovedNodesSet, rafQueue, initialized>>

\* onMouseDownCapture: a press inside the option panel returns early
handleMouseDown(insidePanel) ==
    /\ autoFitView' = IF insidePanel THEN autoFitView ELSE FALSE
    /\ fitViewCalls' = 0
    /\ invalidated' = {}
    /\ lastEvent' = Event("mousedown", NoNode, IF insidePanel THEN "panel" ELSE "diagram")
    /\ UNCHANGED <<source, models, nodes, edges, cachedNodesMap, previousEdges,
                   previousModels, manuallyMovedNodesSet, direction, rafQueue, inFlight,
                   initialized>>

\* the events onMove is called with while the user moves the viewport without a mouse
\* press: a wheel event or a touch event
MoveEvents == {"wheel", "touch"}

\* onMove: only a WheelEvent switches auto-fit off
handleMove(event) ==
    /\ autoFitView' = IF event = "wheel" THEN FALSE ELSE autoFitView
    /\ fitViewCalls' = 0
    /\ invalidated' = {}
    /\ lastEvent' = Event("move", NoNode, event)
    /\ UNCHANGED <<source, models, nodes, edges, cachedNodesMap, previousEdges,
                   previousModels, manuallyMovedNodesSet, direction, rafQueue, inFlight,
                   initialized>>

PanelNext ==
    \/ OnInit
    \/ handleAutoFitToggle
    \/ handleDirectionToggle
    \/ \E insidePanel \in BOOLEAN : handleMouseDown(insidePanel)
    \/ \E event \in MoveEvents : handleMove(event)
    \/ \E i \in 1..Len(nodes), w \in Sizes, h \in Sizes : Measure(i, w, h)
    \/ \E i \in 1..Len(nodes) : handleNodeDragStop(i)
    \/ AnimationFrame
    \/ AnyLayoutResolved

PanelSpec == PanelInit /\ [][PanelNext]_vars

(***************************************************************************)
(* ModelParser on its own: every bounded source, parsed once               *)
(***************************************************************************)
ParserInit ==
    /\ source \in ParserSources
    /\ models = <<>>
    /\ nodes = <<>>
    /\ edges = <<>>
    /\ cachedNodesMap = <<>>
    /\ previousEdges = 0
    /\ previousModels = <<>>
    /\ manuallyMovedNodesSet = {}
    /\ direction = "horizontal"
    /\ autoFitView = TRUE
    /\ rafQueue = 0
    /\ inFlight = EmptyBag
    /\ initialized = FALSE
    /\ fitViewCalls = 0
    /\ invalidated = {}
    /\ lastEvent = Event("new", NoNode, "")

\* parser.getModels()
GetModels ==
    /\ lastEvent.kind = "new"
    /\ models' = getModels(source)
    /\ lastEvent' = Event("getModels", NoNode, "")
    /\ UNCHANGED <<source, nodes, edges, cachedNodesMap, previousEdges, previousModels,
                   manuallyMovedNodesSet, direction, autoFitView, rafQueue, inFlight,
                   initialized, fitViewCalls, invalidated>>

ParserNext == GetModels

ParserSpec == ParserInit /\ [][ParserNext]_vars

(***************************************************************************)
(* Properties of the renderer (checked under Spec)                         *)
(***************************************************************************)
Measured(ns) ==
    \A i \in 1..Len(ns) : ns[i].width # Unmeasured /\ ns[i].height # Unmeasured

sameSize(a, b) == a.width = b.width /\ a.height = b.height

\* nothing scheduled, nothing in flight, every node measured and cached
StableGraph ==
    /\ rafQueue = 0
    /\ inFlight = EmptyBag
    /\ nodes # <<>>
    /\ Measured(nodes)
    /\ cachedNodesMap = nodesMap(nodes)
    /\ previousEdges = Len(edges)

\* C1: a layout result that is applied leaves the position of every node of the
\* manually-moved set as it was in the view state just before
PinnedNodeStability ==
    [][lastEvent'.kind = "resolve" =>
         \A id \in manuallyMovedNodesSet \cap nodeIds(nodes) \cap nodeIds(nodes') :
            nodeOf(nodes', id).position = nodeOf(nodes, id).position]_vars

\* C2: on a stable graph (same edges, same node set, every node measured and cached), an
\* evaluation in which every node has the width and height of the cache schedules no
\* layout
UnchangedSizesScheduleNothing ==
    [][(/\ lastEvent'.kind \in {"source", "measure", "drag", "resolve"}
        /\ edges' = edges
        /\ previousEdges = Len(edges)
        /\ Len(nodes') = Cardinality(DOMAIN cachedNodesMap)
        /\ nodeIds(nodes') = DOMAIN cachedNodesMap
        /\ \A i \in 1..Len(nodes') :
              LET previousNode == cachedNodesMap[nodes'[i].id]
              IN /\ previousNode.width # Unmeasured
                 /\ previousNode.height # Unmeasured
                 /\ sameSize(nodes'[i], previousNode))
       => rafQueue' = rafQueue]_vars

\* C2's case: a node was measured again with the size it had, and nothing is scheduled
UnchangedSizesWitness ==
    /\ lastEvent.kind = "measure"
    /\ lastEvent.detail = "same"
    /\ Measured(nodes)
    /\ rafQueue = 0
    /\ inFlight = EmptyBag

\* exactly one node of ns2 differs from ns1, and only in its height
oneHeightChanged(ns1, ns2) ==
    /\ Len(ns1) = Len(ns2)
    /\ \E i \in 1..Len(ns1) :
          /\ ns2[i].height # ns1[i].height
          /\ ns2[i] = [ns1[i] EXCEPT !.height = ns2[i].height]
          /\ \A j \in 1..Len(ns1) : j # i => ns2[j] = ns1[j]

\* C3: from a stable graph, a measurement that changes one node's height schedules one
\* layout, and applying the result of a layout requested from the committed state
\* schedules none
OneHeightChangeOnePass ==
    [][/\ (/\ lastEvent'.kind = "measure"
           /\ StableGraph
           /\ edges' = edges
           /\ oneHeightChanged(nodes, nodes'))
          => rafQueue' = 1
       /\ (/\ lastEvent'.kind = "resolve"
           /\ lastEvent'.detail = "fresh"
           /\ rafQueue = 0
           /\ Measured(nodes))
          => rafQueue' = 0]_vars

\* C3's case: the result of a layout requested from the committed, measured state has
\* been applied and nothing more is scheduled or in flight
OneHeightChangeWitness ==
    /\ lastEvent.kind = "resolve"
    /\ lastEvent.detail = "fresh"
    /\ nodes # <<>>
    /\ Measured(nodes)
    /\ rafQueue = 0
    /\ inFlight = EmptyBag

\* C4: from a stable graph, an edit that adds one field with a new edge schedules one
\* layout, and the later measurement of the node that gained the field schedules no
\* second one
AddedEdgeOnePass ==
    [][/\ (/\ lastEvent'.kind = "source"
           /\ lastEvent'.detail = "edge added"
           /\ lastEvent'.id # NoNode
           /\ StableGraph)
          => rafQueue' = 1
       /\ (/\ lastEvent.kind = "source"
           /\ lastEvent.detail = "edge added"
           /\ lastEvent.id # NoNode
           /\ rafQueue = 1
           /\ inFlight = EmptyBag
           /\ lastEvent'.kind = "measure"
           /\ lastEvent'.id = lastEvent.id)
          => rafQueue' = 1]_vars

\* C8: a source change commits every fresh node that is in the cache with the cached
\* size and position, and every other fresh node unmeasured at the default position
CacheMergeOnSourceChange ==
    [][lastEvent'.kind = "source" =>
         /\ nodeIds(nodes') = {models'[i].id : i \in 1..Len(models')}
         /\ \A i \in 1..Len(nodes') :
               IF nodes'[i].id \in DOMAIN cachedNodesMap
               THEN /\ sameSize(nodes'[i], cachedNodesMap[nodes'[i].id])
                    /\ nodes'[i].position = cachedNodesMap[nodes'[i].id].position
               ELSE /\ nodes'[i].width = Unmeasured
                    /\ nodes'[i].height = Unmeasured
                    /\ nodes'[i].position = [x |-> DefaultCoord, y |-> DefaultCoord]]_vars

\* C8's case: right after a source change a node is measured and away from the default
\* position, which only the cache can have given it
CacheMergeWitness ==
    /\ lastEvent.kind = "source"
    /\ \E i \in 1..Len(nodes) :
          /\ nodes[i].width # Unmeasured
          /\ nodes[i].position # [x |-> DefaultCoord, y |-> DefaultCoord]

\* C9: a layout that rejects changes no node, no edge, schedules nothing and emits no
\* fit-to-view signal
RejectedLayoutChangesNothing ==
    [][lastEvent'.kind = "reject" =>
         /\ nodes' = nodes
         /\ edges' = edges
         /\ cachedNodesMap' = cachedNodesMap
         /\ rafQueue' = rafQueue
         /\ fitViewCalls' = 0]_vars

\* C9's case: a layout has rejected while measured, placed nodes were on view
RejectedLayoutWitness ==
    /\ lastEvent.kind = "reject"
    /\ \E i \in 1..Len(nodes) :
          /\ nodes[i].width # Unmeasured
          /\ nodes[i].position # [x |-> DefaultCoord, y |-> DefaultCoord]

\* C10: with no layout in flight, the committed nodes are those of the most recent parse
\* and the committed edges are the edges derived from it
CommittedGraphIsLatestParse ==
    inFlight = EmptyBag =>
       /\ [i \in 1..Len(nodes) |-> nodes[i].id] = [i \in 1..Len(models) |-> models[i].id]
       /\ edges = extractModelEdges(models)

(***************************************************************************)
(* Properties of the parser (checked under ParserSpec)                     *)
(***************************************************************************)
Parsed == lastEvent.kind = "getModels"

\* the ids the fields of model m resolve to, one entry per resolving reference
referencesOf(m) == schemaReferences(m.schema)

\* C5: whenever a field of X resolves to Y, Y is in X.dependencies and X is in
\* Y.dependants (X = Y included), and every adjacency entry has its mirror
AdjacencyMirror ==
    Parsed =>
       \A i, j \in 1..Len(models) :
          LET X == models[i]
              Y == models[j]
          IN /\ Y.id \in Range(referencesOf(X)) =>
                   Y.id \in Range(X.dependencies) /\ X.id \in Range(Y.dependants)
             /\ Y.id \in Range(X.dependencies) <=> X.id \in Range(Y.dependants)
             /\ Count(X.dependencies, Y.id) = Count(Y.dependants, X.id)
             /\ Y.id \in Range(X.dependencies) => Y.id \in Range(referencesOf(X))

\* C5's case: a model that refers to itself is its own dependency and dependant
AdjacencyMirrorWitness ==
    /\ Parsed
    /\ \E i \in 1..Len(models) :
          /\ models[i].id \in Range(referencesOf(models[i]))
          /\ models[i].id \in Range(models[i].dependencies)
          /\ models[i].id \in Range(models[i].dependants)

\* the number of fields of m with at least one reference to id
referringFields(m, id) ==
    Cardinality({k \in 1..Len(m.schema) : id \in Range(fieldReferences(m.schema[k]))})

\* C6 as stated: k references from X to Y give k entries on both sides
NoDeduplication ==
    Parsed =>
       \A i, j \in 1..Len(models) :
          /\ Count(models[i].dependencies, models[j].id)
                = Count(referencesOf(models[i]), models[j].id)
          /\ Count(models[j].dependants, models[i].id)
                = Count(referencesOf(models[i]), models[j].id)

\* C6 amended: when exactly one field of X refers to Y, however many times, Y is in
\* X.dependencies once and X is in Y.dependants once
OneEntryPerReferencedModel ==
    Parsed =>
       \A i, j \in 1..Len(models) :
          referringFields(models[i], models[j].id) = 1 =>
             /\ Count(models[i].dependencies, models[j].id) = 1
             /\ Count(models[j].dependants, models[i].id) = 1

\* C6's case: one field names the same model twice and one adjacency entry results
OneEntryWitness ==
    /\ Parsed
    /\ \E i, j \in 1..Len(models) :
          /\ referringFields(models[i], models[j].id) = 1
          /\ Count(referencesOf(models[i]), models[j].id) = 2
          /\ Count(models[i].dependencies, models[j].id) = 1

\* a type name of the source and what it was classified as
resolvedAs(n, r) ==
    /\ r.v = n
    /\ r.isModel <=> \E k \in 1..Len(source) : source[k].name = n
    /\ r.isModel => Cardinality({k \in 1..Len(models) : models[k].id = n}) = 1

\* C7: a type name (whole type, array element or generic argument) is a Model exactly
\* when a declaration of the source has that name, wherever it is declared and whatever
\* its root type; it is then the one model of that id, and otherwise the literal name
NameBasedResolution ==
    Parsed =>
       /\ Len(models) = Len(source)
       /\ \A i \in 1..Len(source) :
             /\ models[i].id = source[i].name
             /\ Len(models[i].schema) = Len(source[i].fields)
             /\ \A j \in 1..Len(models[i].schema) :
                   LET texpr == source[i].fields[j].texpr
                       field == models[i].schema[j]
                   IN CASE texpr.k = "array" ->
                             isArraySchemaField(field) /\ resolvedAs(texpr.n, field.elementType)
                        [] texpr.k = "generic" ->
                             /\ isReferenceSchemaField(field)
                             /\ Len(field.arguments) = Len(texpr.args)
                             /\ \A a \in 1..Len(texpr.args) :
                                   resolvedAs(texpr.args[a], field.arguments[a])
                        [] OTHER -> resolvedAs(texpr.n, field.type)

\* C7's case: a field refers to a model declared later whose root is no object literal
NameBasedResolutionWitness ==
    /\ Parsed
    /\ \E i, j \in 1..Len(models) :
          /\ i < j
          /\ ~source[j].literal
          /\ \E k \in 1..Len(models[i].schema) :
                /\ models[i].schema[k].type.isModel
                /\ models[i].schema[k].type.v = models[j].id

(***************************************************************************)
(* Further properties of the renderer (checked under Spec)                 *)
(***************************************************************************)
\* an evaluation ran in this step, with the edge count and the node count it had before
sameCountsEvaluation ==
    /\ lastEvent'.kind \in {"source", "measure", "drag", "resolve"}
    /\ previousEdges = Len(edges')
    /\ Len(nodes') = Cardinality(DOMAIN cachedNodesMap)

\* C11 as stated: with equal edge and node counts, any node whose width or height differs
\* from the cached value requires a relayout, a first measurement included
AnyMismatchRequiresRelayout ==
    [][sameCountsEvaluation =>
         ((\E i \in 1..Len(nodes') :
              /\ nodes'[i].id \in DOMAIN cachedNodesMap
              /\ ~sameSize(nodes'[i], cachedNodesMap[nodes'[i].id]))
          => rafQueue' = rafQueue + 1)]_vars

\* C11 amended: with equal edge and node counts, a relayout is required exactly when
\* some node differs in width from a cached width that is set, or in height from a
\* cached height that is set; a first measurement requires none
SetSizeMismatchRequiresRelayout ==
    [][sameCountsEvaluation =>
         /\ rafQueue' \in {rafQueue, rafQueue + 1}
         /\ rafQueue' = rafQueue + 1 <=>
               \E i \in 1..Len(nodes') :
                  /\ nodes'[i].id \in DOMAIN cachedNodesMap
                  /\ LET previousNode == cachedNodesMap[nodes'[i].id]
                     IN \/ /\ previousNode.width # Unmeasured
                           /\ nodes'[i].width # previousNode.width
                        \/ /\ previousNode.height # Unmeasured
                           /\ nodes'[i].height # previousNode.height]_vars

\* C11's case: a node has been measured for the first time and no layout is scheduled
FirstMeasurementWitness ==
    /\ lastEvent.kind = "measure"
    /\ lastEvent.detail = "first"
    /\ Measured(nodes)
    /\ rafQueue = 0
    /\ inFlight = EmptyBag

\* C12: an animation frame starts at most one layout computation, however many
\* evaluations asked for one
OneLayoutPerFrame ==
    [][lastEvent'.kind = "frame" =>
         BagCardinality(inFlight') <= BagCardinality(inFlight) + 1]_vars

\* C16: after every evaluation the cache holds exactly the committed nodes, the last edge
\* count is the committed edge count, and evaluating the committed state again requires
\* no relayout
CacheHoldsCommittedNodes ==
    /\ DOMAIN cachedNodesMap = nodeIds(nodes)
    /\ \A i \in 1..Len(nodes) : cachedNodesMap[nodes[i].id] = nodes[i]
    /\ previousEdges = Len(edges)
    /\ ~needsAutoLayout(nodes, edges, cachedNodesMap, previousEdges)

\* C16's case: an evaluation that required a relayout has refreshed the cache with the
\* newly measured node
CacheRefreshWitness ==
    /\ lastEvent.kind = "measure"
    /\ lastEvent.detail = "changed"
    /\ rafQueue > 0
    /\ \E i \in 1..Len(nodes) :
          /\ nodes[i].id = lastEvent.id
          /\ nodes[i].width # Unmeasured
          /\ cachedNodesMap[nodes[i].id] = nodes[i]

\* C19: no step removes an id from the manually-moved set, and a layout result that is
\* applied leaves a pinned node that is at the default position at the default position
PinnedSetGrowsAndDefaultIsHeld ==
    [][/\ manuallyMovedNodesSet \subseteq manuallyMovedNodesSet'
       /\ lastEvent'.kind = "resolve" =>
             \A id \in manuallyMovedNodesSet \cap nodeIds(nodes) \cap nodeIds(nodes') :
                nodeOf(nodes, id).position = [x |-> DefaultCoord, y |-> DefaultCoord]
                => nodeOf(nodes', id).position = [x |-> DefaultCoord, y |-> DefaultCoord]]_vars

(***************************************************************************)
(* Properties of overlapping layouts (checked under RaceSpec, RaceFairSpec)*)
(***************************************************************************)
\* C13: every layout result is applied when it resolves, whatever else is in flight: a
\* node that is not pinned and that the answer places is at the answer's place afterwards
LastWriteWins ==
    [][lastEvent'.kind = "resolve" =>
         /\ Len(nodes') = Len(lastEvent'.placed)
         /\ \A i \in 1..Len(nodes') :
               (nodes'[i].id \notin manuallyMovedNodesSet /\ lastEvent'.placed[i] # NoPlace)
               => nodes'[i].position = lastEvent'.placed[i]]_vars

\* C13's case: two computations were in flight at once, resolved one after the other with
\* different places for a node that is not pinned, and the view has the later place
LastWriteWinsWitness ==
    /\ lastEvent.kind = "resolve"
    /\ inFlight = EmptyBag
    /\ \E i \in 1..Len(nodes) :
          /\ nodes[i].id \notin manuallyMovedNodesSet
          /\ Len(lastEvent.before) = Len(nodes)
          /\ lastEvent.before[i] # NoPlace
          /\ lastEvent.placed[i] # NoPlace
          /\ lastEvent.before[i] # lastEvent.placed[i]
          /\ nodes[i].position = lastEvent.placed[i]

\* from some point on only animation frames and layout results happen
OnlyLayoutSteps == lastEvent'.kind \in {"frame", "resolve"}

\* C20: once only animation frames and layout results happen, the controller reaches a
\* state with no layout scheduled or in flight and stays there
Quiescence ==
    <>[][OnlyLayoutSteps]_vars => <>[](rafQueue = 0 /\ inFlight = EmptyBag)

(***************************************************************************)
(* Properties of getLayoutedElements (checked under LayoutSpec)            *)
(***************************************************************************)
Layouted == lastEvent.kind = "layouted"

reportsSize(elkNode) == elkNode.width # 0 /\ elkNode.height # 0

modelIds(ms) == {ms[i].id : i \in 1..Len(ms)}
modelOf(ms, id) == ms[CHOOSE i \in 1..Len(ms) : ms[i].id = id]

\* C15: after a parse, the ids notified are exactly the ids of both parses whose list of
\* dependants or list of dependencies differs from the previous parse, whether or not
\* the step requires a relayout
TopologyChangeNotifies ==
    [][lastEvent'.kind = "source" =>
         invalidated' =
            {id \in modelIds(models) \cap modelIds(models') :
                \/ modelOf(models', id).dependants # modelOf(models, id).dependants
                \/ modelOf(models', id).dependencies # modelOf(models, id).dependencies}]_vars

\* C15's case: an edit has changed the references of a model, its id is notified, and
\* no layout is scheduled
TopologyChangeWitness ==
    /\ lastEvent.kind = "source"
    /\ invalidated # {}
    /\ invalidated # modelIds(models)
    /\ rafQueue = 0

(***************************************************************************)
(* Properties of the option panel and viewport handlers (checked under     *)
(* PanelSpec)                                                              *)
(***************************************************************************)
\* the graph handleAutoLayout would send to the engine now
graphNow == elkGraph(layoutRequest(nodes, edges, cachedNodesMap), direction,
                     manuallyMovedNodesSet)

\* one port per schema field of the node, in field order, numbered from 0
portsPerField(child, node) ==
    /\ Len(child.ports) = Len(node.data)
    /\ \A k \in 1..Len(child.ports) :
          /\ child.ports[k].order = k - 1
          /\ child.ports[k].id = node.id \o "-" \o node.data[k]

AutoFitOffOnUserGesture ==
    [][/\ (\/ lastEvent'.kind = "move"
           \/ lastEvent'.kind = "mousedown" /\ lastEvent'.detail = "diagram")
          => autoFitView' = FALSE
       /\ (~autoFitView /\ autoFitView') => lastEvent'.kind \in {"autofit", "direction"}
       /\ lastEvent'.kind = "resolve" => (fitViewCalls' = 1 <=> autoFitView)]_vars

====
